---- MODULE Spec2Model ----
(***************************************************************************)
(* Model of the Sellsy invoice worker (src/sellsy/worker/worker.js).       *)
(*                                                                         *)
(* One SellsyApiClient instance (token, tokenExpiry, refreshPromise) is    *)
(* shared by the start-up code, the /health route and the jobs the BullMQ  *)
(* worker runs concurrently.  Node runs one callback at a time, so every   *)
(* action below is the code that runs between two awaits on something      *)
(* external (an HTTP response, a timer).                                   *)
(***************************************************************************)
EXTENDS Integers, Sequences, FiniteSets, TLC

\* ---------------------------------------------------------------- bounds
MaxNow == 60000          \* the clock stops advancing here (ms)
TickMs == 60000          \* granularity of the clock (ms)
MaxFaults == 2           \* failing answers the servers give, two jobs running
MaxCallFaults == 3       \* failing answers the servers give, one job running
MaxJobFaults == 1        \* failing answers the servers give, one job handled
MaxGateFaults == 1       \* failing answers, listener and worker running
MaxDeliveries == 2       \* times the queue hands one job to the worker
MaxSends == 2            \* times one webhook request is sent to the listener
MaxPairFaults == 1       \* failing answers the servers give, two jobs handled

\* ------------------------------------------------------ program constants
maxRetries == 3
SafetyMargin == 60000

Jobs == {"j1", "j2"}
Procs == Jobs \cup {"startup", "health"}

\* expires_in values (seconds) the login server may answer with
ExpiresIn == {120}

\* ------------------------------------------------------------ JS values
NULL == [k |-> "null"]
UNDEFINED == [k |-> "undefined"]
NaN == [k |-> "NaN"]
Num(n) == [k |-> "num", v |-> n]
Tok(e) == [k |-> "tok", id |-> e]
Promise(e) == [k |-> "promise", of |-> e]
NoResult == [k |-> "none"]
NoGet == [force |-> FALSE, token |-> "null", expiry |-> "null", left |-> 0,
          via |-> "none"]

\* !x for the values a token or an expiry can hold
Falsy(x) == x.k \in {"null", "undefined", "NaN"} \/ (x.k = "num" /\ x.v = 0)

VARIABLES
    token,           \* this.token
    tokenExpiry,     \* this.tokenExpiry
    refreshPromise,  \* this.refreshPromise
    now,             \* Date.now()
    inflight,        \* credential exchanges whose HTTP request is outstanding
    exchCause,       \* per exchange started: the token whose 401 forced it
    nSettled,        \* number of exchanges that have settled
    lastSettle,      \* how the latest exchange settled: "none" | "ok" | "fail"
    faultsLeft,      \* failing answers the servers may still give
    workerState,     \* "init" | "running" | "exited"
    pc,              \* where each caller is suspended
    attempt,         \* makeApiCall: let attempt
    force,           \* makeApiCall: let forceRefresh
    tok,             \* makeApiCall: const token of the current attempt
    joined,          \* exchange a caller awaits in getToken
    awaited,         \* what the awaited refreshPromise settled with
    lastGet,         \* the latest getToken call: what it saw, how it is served
    gets,            \* makeApiCall: how each getToken of the call is served
    trace,           \* makeApiCall: outcome of each attempt of the call
    sleeps,          \* makeApiCall: delays (ms) of the timers the call has set
    nReq,            \* makeApiCall: API requests issued by the call
    result,          \* how the last call of a caller completed
    queued,          \* jobs waiting in the queue
    event,           \* job.data of each job: the webhook event
    remote,          \* the estimate of each job as the API holds it
    step,            \* InvoiceCreator: the call an execution of a job awaits
    outcome,         \* how the latest execution of a job ended
    payload,         \* body of the POST /v2/invoices of the latest execution
    runs,            \* executions of the job handler, per job
    reqs,            \* requests of the finished calls of the latest execution
    created,         \* create-invoice calls that succeeded, per job
    thrown,          \* the error the latest execution of a job rejected with
    linked,          \* consumer.js: how linkInvoiceToEstimate ended, per job
    req              \* webhook listener: the requests it is sent

mgrVars == <<token, tokenExpiry, refreshPromise, inflight, exchCause, nSettled,
             lastSettle>>
getVars == <<joined, lastGet>>
callVars == <<pc, attempt, force, tok, awaited, gets, trace, sleeps, nReq,
              result>>
vars == <<token, tokenExpiry, refreshPromise, now, inflight, exchCause,
          nSettled, lastSettle, faultsLeft, workerState, pc, attempt, force, tok,
          joined, awaited, lastGet, gets, trace, sleeps, nReq, result, queued,
          event, remote, step, outcome, payload, runs, reqs, created, thrown,
          linked, req>>
jobVars == <<event, remote, step, outcome, payload, runs, reqs, created,
             thrown, linked>>

nStarted == Len(exchCause)

\* ------------------------------------------------------------- getToken
\* const isExpired = !this.tokenExpiry || Date.now() >= this.tokenExpiry - 60000
IsExpired_Late(expiry, t) == Falsy(expiry) \/ t > expiry.v - SafetyMargin
IsExpired(expiry, t) == Falsy(expiry) \/ t >= expiry.v - SafetyMargin

\* if (!this.token || isExpired || forceRefresh)
NeedsRefresh_OrRefreshing(forceRefresh) ==
    \/ Falsy(token) \/ IsExpired(tokenExpiry, now) \/ forceRefresh
    \/ refreshPromise # NULL
NeedsRefresh(forceRefresh) ==
    Falsy(token) \/ IsExpired(tokenExpiry, now) \/ forceRefresh

\* if (!this.refreshPromise)
ShouldStartRefresh_Always(rp) == TRUE
ShouldStartRefresh(rp) == rp = NULL

\* getToken(forceRefresh) up to its return or its await.  cause is the token
\* whose 401 made the caller force the refresh (NULL otherwise).
GetToken(p, forceRefresh, cause) ==
    /\ lastGet' = [force |-> forceRefresh, token |-> token.k,
                   expiry |-> tokenExpiry.k,
                   left |-> IF tokenExpiry.k = "num" THEN tokenExpiry.v - now
                            ELSE 0,
                   via |-> IF NeedsRefresh(forceRefresh) THEN "exchange"
                           ELSE "cache"]
    /\ IF NeedsRefresh(forceRefresh)
       THEN /\ IF ShouldStartRefresh(refreshPromise)
               THEN \* this.refreshPromise = this.refreshToken().finally(...)
                    \* refreshToken runs up to its await fetch(...)
                    /\ exchCause' = Append(exchCause, cause)
                    /\ inflight' = inflight \cup {nStarted + 1}
                    /\ refreshPromise' = Promise(nStarted + 1)
               ELSE UNCHANGED <<exchCause, inflight, refreshPromise>>
            /\ joined' = [joined EXCEPT ![p] = refreshPromise'.of]
       ELSE UNCHANGED <<exchCause, inflight, refreshPromise, joined>>
    /\ UNCHANGED <<token, tokenExpiry, nSettled, lastSettle>>

\* ---------------------------------------------------------- refreshToken
\* What the login server can answer.  "fail" stands for every path into the
\* catch of refreshToken: fetch rejects, !response.ok, response.json() rejects.
ExchangeOutcomes(e) ==
    {[k |-> "fail"]}
    \cup {[k |-> "ok", access_token |-> Tok(e), expires_in |-> Num(s)] :
            s \in ExpiresIn}
    \cup {[k |-> "ok", access_token |-> UNDEFINED, expires_in |-> Num(120)],
          [k |-> "ok", access_token |-> Tok(e), expires_in |-> UNDEFINED]}

\* the answers counted as failing
Faulty(o) == o.k = "fail" \/ o.access_token = UNDEFINED
             \/ o.expires_in = UNDEFINED

\* .finally(() => { this.refreshPromise = null; })
Finally_Keep(rp) == rp
Finally(rp) == NULL

\* Date.now() + data.expires_in * 1000
ExpiryOf_Millis(expires_in, t) ==
    IF expires_in.k = "num" THEN Num(t + expires_in.v) ELSE NaN
ExpiryOf(expires_in, t) ==
    IF expires_in.k = "num" THEN Num(t + expires_in.v * 1000) ELSE NaN

\* The exchange e settles: the rest of refreshToken, then the finally
\* callback, then the callers awaiting the promise are made runnable.
SettleExchange(e, o) ==
    /\ workerState # "exited"
    /\ e \in inflight
    /\ o \in ExchangeOutcomes(e)
    /\ Faulty(o) => faultsLeft > 0
    /\ faultsLeft' = IF Faulty(o) THEN faultsLeft - 1 ELSE faultsLeft
    /\ inflight' = inflight \ {e}
    /\ IF o.k = "ok"
       THEN /\ token' = o.access_token
            /\ tokenExpiry' = ExpiryOf(o.expires_in, now)
       ELSE UNCHANGED <<token, tokenExpiry>>
    /\ refreshPromise' = Finally(refreshPromise)
    /\ lastSettle' = IF o.k = "ok" THEN "ok" ELSE "fail"
    /\ nSettled' = nSettled + 1
    /\ UNCHANGED exchCause
    /\ pc' = [p \in Procs |->
                IF pc[p] = "awaitRefresh" /\ joined[p] = e
                THEN "resume" ELSE pc[p]]
    /\ awaited' = [p \in Procs |->
                IF pc[p] = "awaitRefresh" /\ joined[p] = e
                THEN (IF o.k = "ok"
                      THEN [k |-> "value", v |-> o.access_token]
                      ELSE [k |-> "error"])
                ELSE awaited[p]]
    /\ UNCHANGED <<now, workerState, attempt, force, tok, joined, lastGet,
                   gets, trace, sleeps, nReq, result, queued>>
    /\ UNCHANGED <<jobVars, req>>

\* ------------------------------------------------------------ makeApiCall
\* What the business API can answer to one request.  A 200 whose body is not
\* JSON makes response.json() reject; the body of the 503 cannot be read
\* (response.text() rejects).
ApiOk == [status |-> 200, body |-> "json"]
ApiResponses ==
    {ApiOk,
     [status |-> 200, body |-> "notjson"],
     [status |-> 401, body |-> "denied"],
     [status |-> 500, body |-> "oops"],
     [status |-> 503, body |-> "unreadable"]}

\* fetch(url, apiOptions) rejects
NetworkError == [status |-> 0, body |-> "none"]

\* response.ok
Ok(r) == r.status >= 200 /\ r.status <= 299

\* errorBody of the !response.ok branch
ErrorBody(r) ==
    IF r.body = "unreadable"
    THEN "Impossible de lire le corps de l'erreur"
    ELSE r.body

\* let forceRefresh = false
ForceAtStart_Forced == TRUE
ForceAtStart == FALSE

\* if (response.status === 401), tested before if (!response.ok)
IsUnauthorized_Never(r) == FALSE
IsUnauthorized(r) == r.status = 401

\* attempt++ of the 401 branch
AttemptAfter401_Free(a) == a
AttemptAfter401(a) == a + 1

\* forceRefresh = true of the 401 branch
ForceAfter401_Keep(f) == f
ForceAfter401(f) == TRUE

\* What a caller keeps of an attempt that never got a response
TokenError == [status |-> 0, body |-> "token"]
Rejected(status, body) == [k |-> "error", status |-> status, body |-> body]

\* while (attempt < this.maxRetries)
WhileTest_Always(att) == TRUE
WhileTest(att) == att < maxRetries

\* The while test and the body of the loop up to its first await on
\* something external: getToken, then (token in hand) fetch.  n is the
\* number of requests the call has issued so far.
Loop(c, att, f, tr, cause, n, g) ==
    /\ attempt' = [attempt EXCEPT ![c] = att]
    /\ force' = [force EXCEPT ![c] = f]
    /\ trace' = [trace EXCEPT ![c] = tr]
    /\ sleeps' = [sleeps EXCEPT ![c] = IF att = 0 THEN <<>> ELSE @]
    /\ UNCHANGED awaited
    /\ IF WhileTest(att)
       THEN /\ GetToken(c, f, cause)
            /\ gets' = [gets EXCEPT ![c] = Append(g, lastGet'.via)]
            /\ result' = [result EXCEPT ![c] = NoResult]
            /\ IF NeedsRefresh(f)
               THEN /\ pc' = [pc EXCEPT ![c] = "awaitRefresh"]
                    /\ nReq' = [nReq EXCEPT ![c] = n]
                    /\ UNCHANGED tok
               ELSE /\ pc' = [pc EXCEPT ![c] = "fetch"]
                    /\ tok' = [tok EXCEPT ![c] = token]
                    /\ nReq' = [nReq EXCEPT ![c] = n + 1]
       ELSE \* the loop ends and the function returns nothing
            /\ pc' = [pc EXCEPT ![c] = "idle"]
            /\ result' = [result EXCEPT ![c] = UNDEFINED]
            /\ nReq' = [nReq EXCEPT ![c] = n]
            /\ gets' = [gets EXCEPT ![c] = g]
            /\ UNCHANGED <<mgrVars, getVars, tok>>

\* setTimeout(resolve, 1000 * attempt)
Delay_Flat(a) == 1000
Delay(a) == 1000 * a

\* if (attempt >= this.maxRetries) of the catch
Exhausted_Never(a) == FALSE
Exhausted(a) == a >= maxRetries

\* The catch of the loop: attempt++, rethrow when the budget is spent,
\* otherwise sleep 1000 * attempt.
Catch(c, err, entry) ==
    /\ attempt' = [attempt EXCEPT ![c] = @ + 1]
    /\ trace' = [trace EXCEPT ![c] = Append(@, entry)]
    /\ IF Exhausted(attempt[c] + 1)
       THEN /\ pc' = [pc EXCEPT ![c] = "idle"]
            /\ result' = [result EXCEPT ![c] = err]
            /\ UNCHANGED sleeps
       ELSE /\ pc' = [pc EXCEPT ![c] = "backoff"]
            /\ sleeps' = [sleeps EXCEPT ![c] = Append(@, Delay(attempt[c] + 1))]
            /\ UNCHANGED result
    /\ UNCHANGED <<mgrVars, getVars, force, tok, awaited, gets, nReq>>

\* the queue hands its jobs to the handler in the order they were added,
\* j1 before j2
FirstInQueue(q) == IF "j1" \in q THEN "j1" ELSE "j2"

\* makeApiCall(url, options) is invoked by a job
StartCall(c) ==
    /\ workerState = "running"
    /\ pc[c] = "idle"
    /\ c \in queued
    /\ c = FirstInQueue(queued)
    /\ queued' = queued \ {c}
    /\ Loop(c, 0, ForceAtStart, <<>>, NULL, 0, <<>>)
    /\ UNCHANGED <<faultsLeft, now, workerState>>
    /\ UNCHANGED <<jobVars, req>>

\* await this.getToken(forceRefresh) returns or throws in makeApiCall
ResumeCall(c) ==
    /\ workerState = "running"
    /\ pc[c] = "resume"
    /\ IF awaited[c].k = "value"
       THEN /\ tok' = [tok EXCEPT ![c] = awaited[c].v]
            /\ pc' = [pc EXCEPT ![c] = "fetch"]
            /\ nReq' = [nReq EXCEPT ![c] = @ + 1]
            /\ UNCHANGED <<mgrVars, getVars, attempt, force, awaited, gets,
                           trace, sleeps, result>>
       ELSE Catch(c, Rejected(0, "token"), TokenError)
    /\ UNCHANGED <<faultsLeft, now, workerState, queued>>
    /\ UNCHANGED <<jobVars, req>>

\* await fetch(url, apiOptions) returns the response r
ApiRespond(c, r) ==
    /\ workerState = "running"
    /\ pc[c] = "fetch"
    /\ r \in ApiResponses
    /\ r # ApiOk => faultsLeft > 0
    /\ faultsLeft' = IF r # ApiOk THEN faultsLeft - 1 ELSE faultsLeft
    /\ IF IsUnauthorized(r)
       THEN Loop(c, AttemptAfter401(attempt[c]), ForceAfter401(force[c]),
                 Append(trace[c], r), tok[c], nReq[c], gets[c])
       ELSE IF ~Ok(r)
       THEN Catch(c, Rejected(r.status, ErrorBody(r)), r)
       ELSE IF r.body = "notjson"
       THEN Catch(c, Rejected(r.status, "SyntaxError"), r)
       ELSE /\ pc' = [pc EXCEPT ![c] = "idle"]
            /\ result' = [result EXCEPT ![c] = [k |-> "value", body |-> r.body]]
            /\ trace' = [trace EXCEPT ![c] = Append(@, r)]
            /\ UNCHANGED <<mgrVars, getVars, attempt, force, tok, awaited,
                           gets, nReq, sleeps>>
    /\ UNCHANGED <<now, workerState, queued>>
    /\ UNCHANGED <<jobVars, req>>

\* await fetch(url, apiOptions) rejects
ApiUnreachable(c) ==
    /\ workerState = "running"
    /\ pc[c] = "fetch"
    /\ faultsLeft > 0
    /\ faultsLeft' = faultsLeft - 1
    /\ Catch(c, Rejected(0, "network"), NetworkError)
    /\ UNCHANGED <<now, workerState, queued>>
    /\ UNCHANGED <<jobVars, req>>

\* forceRefresh is declared before the while: the next iteration finds it
\* as the previous one left it
ForceOnRetry_Cleared(f) == FALSE
ForceOnRetry(f) == f

\* the setTimeout of the catch fires
BackoffDone(c) ==
    /\ workerState = "running"
    /\ pc[c] = "backoff"
    /\ Loop(c, attempt[c], ForceOnRetry(force[c]), trace[c], NULL, nReq[c],
            gets[c])
    /\ UNCHANGED <<faultsLeft, now, workerState, queued>>
    /\ UNCHANGED <<jobVars, req>>

\* --------------------------------------------------------- InvoiceCreator
\* more JS values: strings, the result of toString(), absent keys
Str(s) == [k |-> "str", v |-> s]
NumStr(n) == [k |-> "numstr", n |-> n]
ABSENT == [k |-> "absent"]
Truthy(x) == ~Falsy(x) /\ x # Str("")

\* const acceptedStatuses = ["accepted", "won", "signed"]
acceptedStatuses == {"accepted", "won", "signed"}

\* isEstimateAccepted(estimate)
IsEstimateAccepted_Always(estimate) == TRUE
IsEstimateAccepted(estimate) == estimate.status \in acceptedStatuses

\* the test of processEvent
IsRelevant_AnyEstimate(ev) == ev.relatedtype = "estimate"
IsRelevant(ev) == ev.relatedtype = "estimate" /\ ev.eventType = "docslog"

\* webhookEstimate.related?.find((r) => r.type === "company")?.id
Companies(related) == {i \in 1..Len(related) : related[i].type = "company"}
ClientId_Last(related) ==
    IF Companies(related) = {} THEN UNDEFINED
    ELSE related[CHOOSE i \in Companies(related) :
                    \A j \in Companies(related) : i >= j].id
ClientId(related) ==
    IF Companies(related) = {} THEN UNDEFINED
    ELSE related[CHOOSE i \in Companies(related) :
                    \A j \in Companies(related) : i <= j].id

\* if (!clientId) throw
ClientMissing_Never(clientId) == FALSE
ClientMissing(clientId) == ~Truthy(clientId)

\* one row of transformEstimateItemsToInvoiceRows
Ligne(i) == [k |-> "ligne", n |-> i]
Prod(id) == [k |-> "prod", id |-> id]
NumToString(x) == IF x.k = "num" THEN NumStr(x.v) ELSE x
TransformRow(row, i) ==
    [type |-> "single",
     description |-> IF Truthy(row.description) THEN row.description
                     ELSE Ligne(i),
     quantity |-> IF row.quantity.k \in {"undefined", "null"}
                     \/ NumToString(row.quantity) = Str("")
                  THEN Str("1")
                  ELSE NumToString(row.quantity),
     unit_amount |-> IF Truthy(row.unitAmount) THEN NumToString(row.unitAmount)
                     ELSE IF Truthy(row.unit_amount)
                     THEN NumToString(row.unit_amount)
                     ELSE Str("0"),
     tax_id |-> IF Truthy(row.tax) THEN row.tax
                ELSE IF Truthy(row.tax1) THEN row.tax1
                ELSE ABSENT,
     reference |-> IF Truthy(row.product)
                   THEN (IF Truthy(row.reference) THEN row.reference
                         ELSE Prod(row.product.v))
                   ELSE ABSENT]

\* a JS array
Arr(items) == [k |-> "array", items |-> items]

\* transformEstimateItemsToInvoiceRows(estimateRows)
TransformRows_Reversed(rows) ==
    IF rows.k # "array" \/ rows.items = <<>> THEN <<>>
    ELSE [i \in 1..Len(rows.items) |->
            TransformRow(rows.items[Len(rows.items) + 1 - i], i)]
TransformRows(rows) ==
    IF rows.k # "array" \/ rows.items = <<>> THEN <<>>
    ELSE [i \in 1..Len(rows.items) |-> TransformRow(rows.items[i], i)]

\* cleanDataForApi(webhookEstimate) keeps a key that is not in the removal
\* list when its value is not null, undefined or ""
Kept_All(value) == TRUE
Kept(value) == value.k \notin {"null", "undefined"} /\ value # Str("")

\* defaultPropertiesToRemove
defaultPropertiesToRemove ==
    {"id", "created", "fiscal_year_id", "number", "public_link", "pdf_link",
     "owner", "date", "delivery_address_id", "invoicing_address_id",
     "amounts", "related", "rows", "status"}

\* cleanDataForApi(data): a key that is filtered out is ABSENT
CleanDataForApi(data) ==
    [key \in DOMAIN data |->
        IF key \in defaultPropertiesToRemove THEN ABSENT
        ELSE IF Kept(data[key]) THEN data[key]
        ELSE ABSENT]

\* const invoiceData = { subject, currency, parent, related, rows }
FactureOf(number) == [k |-> "facture", number |-> number]
ConstructedData(fullEstimate, webhookEstimate, clientId) ==
    [subject |-> IF Truthy(webhookEstimate.subject)
                 THEN webhookEstimate.subject
                 ELSE FactureOf(webhookEstimate.number),
     currency |-> IF Truthy(webhookEstimate.currency)
                  THEN webhookEstimate.currency
                  ELSE Str("EUR"),
     parent |-> [type |-> "estimate", id |-> fullEstimate.id],
     related |-> <<[id |-> clientId, type |-> "company"]>>,
     rows |-> TransformRows(fullEstimate.rows)]

\* {...first, ...second}: the keys of both, second winning
Spread_FirstWins(first, second) ==
    [key \in DOMAIN first \cup DOMAIN second |->
        IF key \in DOMAIN first /\ first[key] # ABSENT THEN first[key]
        ELSE IF key \in DOMAIN second THEN second[key]
        ELSE ABSENT]
Spread(first, second) ==
    [key \in DOMAIN first \cup DOMAIN second |->
        IF key \in DOMAIN second THEN second[key] ELSE first[key]]

\* finalInvoiceData = {...cleanedWebhookData, ...invoiceData}
InvoiceData(fullEstimate, webhookEstimate, clientId) ==
    Spread(CleanDataForApi(webhookEstimate),
           ConstructedData(fullEstimate, webhookEstimate, clientId))

\* the events and the estimates the model runs on
RowA == [description |-> Str("A"), quantity |-> Num(2), unitAmount |-> Num(10),
         unit_amount |-> UNDEFINED, tax |-> Num(5), tax1 |-> UNDEFINED,
         product |-> Num(7), reference |-> Str("P7")]
RowB == [description |-> Str("B"), quantity |-> UNDEFINED,
         unitAmount |-> UNDEFINED, unit_amount |-> Num(3), tax |-> UNDEFINED,
         tax1 |-> UNDEFINED, product |-> UNDEFINED, reference |-> UNDEFINED]
RowSets == {Arr(<<RowA, RowB>>), Arr(<<RowB>>), UNDEFINED}

Company == [type |-> "company", id |-> Num(9)]
Contact == [type |-> "contact", id |-> Num(4)]
Relations == {<<Contact, Company>>, <<Contact>>}

Opportunity == [k |-> "object", type |-> "opportunity", id |-> Num(5)]
WebhookEstimate(status, related) ==
    [id |-> Num(1), status |-> status, number |-> Str("D-1"),
     subject |-> Str("Devis"), currency |-> UNDEFINED, note |-> Str(""),
     related |-> related,
     created |-> Str("2024-05-02"), date |-> Str("2024-05-02"),
     owner |-> [k |-> "object", type |-> "staff", id |-> Num(3)],
     amounts |-> [k |-> "object", total |-> Num(23)],
     public_link |-> Str("https://sellsy/p/1"),
     pdf_link |-> Str("https://sellsy/pdf/1"),
     fiscal_year_id |-> Num(6), delivery_address_id |-> Num(31),
     invoicing_address_id |-> Num(32),
     rows |-> Arr(<<RowA>>), parent |-> UNDEFINED]
Event(relatedtype, eventType, relatedobject) ==
    [relatedtype |-> relatedtype, eventType |-> eventType,
     relatedobject |-> relatedobject]
Events ==
    {Event("estimate", "docslog", WebhookEstimate(s, rel)) :
        s \in {"signed", "draft"}, rel \in Relations}
    \cup {Event("estimate", "created", WebhookEstimate("won", <<Company>>)),
          Event("invoice", "docslog", WebhookEstimate("won", <<Company>>))}
Estimates ==
    {[id |-> Num(1), status |-> s, rows |-> rows] :
        s \in {"won", "draft"}, rows \in RowSets}

\* the rows, the webhook estimates and the fetched estimates the payload is
\* built from: every field with its usual, its empty and its missing values
RowInputs ==
    [description : {Str("A"), Str(""), NULL},
     quantity : {Num(2), Num(0), Str(""), UNDEFINED},
     unitAmount : {Num(10), Num(0), UNDEFINED},
     unit_amount : {Num(3), NULL},
     tax : {Num(5), Num(0), UNDEFINED},
     tax1 : {Num(6), UNDEFINED},
     product : {Num(7), NULL},
     reference : {Str("P7"), Str("")}]
EstimateInputs ==
    {[id |-> Num(1), status |-> "won", rows |-> Arr(<<RowB, row>>)] :
        row \in RowInputs}
    \cup {[id |-> id, status |-> "won", rows |-> rows] :
            id \in {Num(1), Num(8)},
            rows \in {Arr(<<>>), UNDEFINED, NULL}}
Company2 == [type |-> "company", id |-> Num(12)]
WebhookInputs ==
    {[WebhookEstimate("signed", rel) EXCEPT
        !.subject = subject, !.currency = currency, !.note = note,
        !.parent = parent] :
        rel \in Relations \cup {<<Company2, Contact, Company>>},
        subject \in {Str("Devis"), Str(""), NULL, Num(0)},
        currency \in {Str("USD"), Str(""), UNDEFINED},
        note \in {Str("net 30"), Str(""), NULL},
        parent \in {UNDEFINED, Opportunity}}

\* a makeApiCall of the job has returned or thrown
CallSettled(c) == pc[c] = "idle" /\ result[c] # NoResult

\* the errors a job handler rejects with: name is the name of the class the
\* error was constructed from
NoError == [k |-> "none", name |-> "none", message |-> "none"]
Thrown(name, message) == [k |-> "error", name |-> name, message |-> message]

\* throw new Error("Client introuvable dans le devis")
ClientError == Thrown("Error", "Client introuvable dans le devis")

\* reading a property of undefined
IdOfUndefined == Thrown("TypeError", "id of undefined")

\* the error makeApiCall rethrew: the Error of the !response.ok branch or of
\* refreshToken, the TypeError of a fetch that rejects, the SyntaxError of
\* response.json()
ApiError(res) ==
    Thrown(IF res.body = "network" THEN "TypeError"
           ELSE IF res.body = "SyntaxError" THEN "SyntaxError"
           ELSE "Error",
           res.body)

\* the catch of handleEstimateModification and the catch of the job
\* handler: log, then throw error
Rethrow_Swallow(error) == NoError
Rethrow(error) == error

\* the job handler returns (completed) or rethrows err (failed)
Finish(c, how, err) ==
    /\ step' = [step EXCEPT ![c] = "idle"]
    /\ outcome' = [outcome EXCEPT ![c] =
                    IF Rethrow(err) = NoError THEN "completed" ELSE how]
    /\ thrown' = [thrown EXCEPT ![c] = Rethrow(err)]

\* The worker takes job c from the queue and runs its handler up to the
\* first await on something external: processEvent,
\* handleEstimateModification, getEstimateDetails, makeApiCall (GET).
ProcessEvent(c) ==
    /\ workerState = "running"
    /\ c \in queued
    /\ step[c] = "idle"
    /\ queued' = queued \ {c}
    /\ runs' = [runs EXCEPT ![c] = @ + 1]
    /\ reqs' = [reqs EXCEPT ![c] = [get |-> 0, post |-> 0]]
    /\ payload' = [payload EXCEPT ![c] = NULL]
    /\ linked' = [linked EXCEPT ![c] = "none"]
    /\ IF /\ IsRelevant(event[c])
          /\ IsEstimateAccepted(event[c].relatedobject)
       THEN /\ step' = [step EXCEPT ![c] = "get"]
            /\ outcome' = [outcome EXCEPT ![c] = "none"]
            /\ thrown' = [thrown EXCEPT ![c] = NoError]
            /\ Loop(c, 0, ForceAtStart, <<>>, NULL, 0, <<>>)
       ELSE /\ Finish(c, "completed", NoError)
            /\ UNCHANGED <<mgrVars, getVars, callVars>>
    /\ UNCHANGED <<faultsLeft, now, workerState, event, remote, created, req>>

\* const fullEstimate = await this.getEstimateDetails(estimateId): the body
\* of the answer to the GET the execution of job c has sent
FullEstimate_OfFirstJob(c) == remote["j1"]
FullEstimate(c) == remote[c]

\* await of the promise of makeApiCall: a rejection is thrown to the catch
\* of handleEstimateModification
Rejects_Never(res) == FALSE
Rejects(res) == res.k = "error"

\* The GET of the estimate has settled: the rest of
\* handleEstimateModification up to the await of the POST in
\* createInvoiceFromEstimate.
EstimateFetched(c) ==
    /\ workerState = "running"
    /\ step[c] = "get"
    /\ CallSettled(c)
    /\ reqs' = [reqs EXCEPT ![c].get = nReq[c]]
    /\ IF Rejects(result[c])
       THEN /\ Finish(c, "failed: api", ApiError(result[c]))
            /\ UNCHANGED <<mgrVars, getVars, callVars, payload>>
       ELSE IF result[c] = UNDEFINED
       THEN \* fullEstimate.id of undefined
            /\ Finish(c, "failed: TypeError", IdOfUndefined)
            /\ UNCHANGED <<mgrVars, getVars, callVars, payload>>
       ELSE IF ClientMissing(ClientId(event[c].relatedobject.related))
       THEN /\ Finish(c, "failed: client", ClientError)
            /\ UNCHANGED <<mgrVars, getVars, callVars, payload>>
       ELSE /\ payload' = [payload EXCEPT ![c] =
                    InvoiceData(FullEstimate(c), event[c].relatedobject,
                                ClientId(event[c].relatedobject.related))]
            /\ step' = [step EXCEPT ![c] = "post"]
            /\ UNCHANGED <<outcome, thrown>>
            /\ Loop(c, 0, ForceAtStart, <<>>, NULL, 0, <<>>)
    /\ UNCHANGED <<faultsLeft, now, workerState, queued, event, remote, runs,
                   created, linked, req>>

\* The POST of the invoice has settled: the rest of createInvoiceFromEstimate
\* and of the job handler.
InvoiceCreated(c) ==
    /\ workerState = "running"
    /\ step[c] = "post"
    /\ CallSettled(c)
    /\ reqs' = [reqs EXCEPT ![c].post = nReq[c]]
    /\ IF result[c].k = "error"
       THEN /\ Finish(c, "failed: api", ApiError(result[c]))
            /\ UNCHANGED created
       ELSE IF result[c] = UNDEFINED
       THEN \* invoice.id of undefined
            /\ Finish(c, "failed: TypeError", IdOfUndefined)
            /\ UNCHANGED created
       ELSE /\ Finish(c, "completed", NoError)
            /\ created' = [created EXCEPT ![c] = @ + 1]
    /\ UNCHANGED <<faultsLeft, now, workerState, queued, mgrVars, getVars,
                   callVars, event, remote, payload, runs, linked, req>>

\* createInvoiceFromEstimate(fullEstimate, webhookEstimate) up to the
\* payload it logs, applied to remote[c] and to the estimate of event[c]
BuildPayload(c) ==
    /\ payload[c] = NULL
    /\ outcome[c] = "none"
    /\ IF ClientMissing(ClientId(event[c].relatedobject.related))
       THEN /\ Finish(c, "failed: client", ClientError)
            /\ UNCHANGED payload
       ELSE /\ payload' = [payload EXCEPT ![c] =
                    InvoiceData(remote[c], event[c].relatedobject,
                                ClientId(event[c].relatedobject.related))]
            /\ UNCHANGED <<step, outcome, thrown>>
    /\ UNCHANGED <<faultsLeft, now, workerState, queued, mgrVars, getVars,
                   callVars, event, remote, runs, reqs, created, linked, req>>

\* The queue delivers at least once: a job whose execution has ended is
\* handed to the worker again.
Redeliver(c) ==
    /\ workerState = "running"
    /\ step[c] = "idle"
    /\ c \notin queued
    /\ runs[c] >= 1
    /\ runs[c] < MaxDeliveries
    /\ queued' = queued \cup {c}
    /\ UNCHANGED <<faultsLeft, now, workerState, mgrVars, getVars, callVars,
                   jobVars, req>>

\* ------------------------------------------- consumer.js (InvoiceCreator)
\* The consumer.js revision of the worker has the same SellsyApiClient, the
\* same job handler and the same processEvent, handleEstimateModification
\* and getEstimateDetails up to the creation of the invoice; its
\* InvoiceCreator builds another payload and ends with
\* linkInvoiceToEstimate.

\* x || d
OrElse(x, d) == IF Truthy(x) THEN x ELSE d

\* transformEstimateItemsToInvoiceRows(estimateRows) of consumer.js
ConsumerRow(row) ==
    [description |-> OrElse(row.description, Str("")),
     quantity |-> OrElse(row.quantity, Num(1)),
     unitAmount |-> OrElse(row.unitAmount, Num(0)),
     product |-> IF Truthy(row.product) THEN row.product ELSE ABSENT,
     tax |-> IF Truthy(row.tax) THEN row.tax ELSE ABSENT]
ConsumerRows(rows) ==
    IF rows.k # "array" \/ rows.items = <<>> THEN <<>>
    ELSE [i \in 1..Len(rows.items) |-> ConsumerRow(rows.items[i])]

\* finalInvoiceData of consumer.js
ConsumerInvoiceData(fullEstimate, webhookEstimate, clientId) ==
    [related |-> [id |-> clientId, type |-> "company"],
     currency |-> OrElse(webhookEstimate.currency, Str("EUR")),
     subject |-> OrElse(webhookEstimate.subject, Str("Facture")),
     rows |-> ConsumerRows(fullEstimate.rows),
     status |-> Str(webhookEstimate.status),
     note |-> IF Kept(webhookEstimate.note) THEN webhookEstimate.note
              ELSE ABSENT]

\* the catch of linkInvoiceToEstimate: logger.warn, nothing is rethrown
LinkCatch_Rethrow(error) == error
LinkCatch(error) == NoError

\* The GET of the estimate has settled: the rest of
\* handleEstimateModification up to the await of the POST in
\* createInvoiceFromEstimate.
ConsumerEstimateFetched(c) ==
    /\ workerState = "running"
    /\ step[c] = "get"
    /\ CallSettled(c)
    /\ reqs' = [reqs EXCEPT ![c].get = nReq[c]]
    /\ IF result[c].k = "error"
       THEN /\ Finish(c, "failed: api", ApiError(result[c]))
            /\ UNCHANGED <<mgrVars, getVars, callVars, payload>>
       ELSE IF result[c] = UNDEFINED
       THEN \* fullEstimate.id of undefined
            /\ Finish(c, "failed: TypeError", IdOfUndefined)
            /\ UNCHANGED <<mgrVars, getVars, callVars, payload>>
       ELSE IF ClientMissing(ClientId(event[c].relatedobject.related))
       THEN /\ Finish(c, "failed: client", ClientError)
            /\ UNCHANGED <<mgrVars, getVars, callVars, payload>>
       ELSE /\ payload' = [payload EXCEPT ![c] =
                    ConsumerInvoiceData(remote[c], event[c].relatedobject,
                                ClientId(event[c].relatedobject.related))]
            /\ step' = [step EXCEPT ![c] = "post"]
            /\ UNCHANGED <<outcome, thrown>>
            /\ Loop(c, 0, ForceAtStart, <<>>, NULL, 0, <<>>)
    /\ UNCHANGED <<faultsLeft, now, workerState, queued, event, remote, runs,
                   created, linked, req>>

\* The POST of the invoice has settled: the rest of
\* createInvoiceFromEstimate, then handleEstimateModification up to the
\* await of the PATCH in linkInvoiceToEstimate.
ConsumerInvoiceCreated(c) ==
    /\ workerState = "running"
    /\ step[c] = "post"
    /\ CallSettled(c)
    /\ reqs' = [reqs EXCEPT ![c].post = nReq[c]]
    /\ IF result[c].k = "error"
       THEN /\ Finish(c, "failed: api", ApiError(result[c]))
            /\ UNCHANGED <<mgrVars, getVars, callVars, created>>
       ELSE IF result[c] = UNDEFINED
       THEN \* invoice.id of undefined
            /\ Finish(c, "failed: TypeError", IdOfUndefined)
            /\ UNCHANGED <<mgrVars, getVars, callVars, created>>
       ELSE /\ created' = [created EXCEPT ![c] = @ + 1]
            /\ step' = [step EXCEPT ![c] = "patch"]
            /\ UNCHANGED <<outcome, thrown>>
            /\ Loop(c, 0, ForceAtStart, <<>>, NULL, 0, <<>>)
    /\ UNCHANGED <<faultsLeft, now, workerState, queued, event, remote,
                   payload, runs, linked, req>>

\* The PATCH of the estimate has settled: the rest of linkInvoiceToEstimate,
\* of handleEstimateModification and of the job handler.
InvoiceLinked(c) ==
    /\ workerState = "running"
    /\ step[c] = "patch"
    /\ CallSettled(c)
    /\ linked' = [linked EXCEPT ![c] =
                    IF result[c].k = "error" THEN "caught" ELSE "returned"]
    /\ LET err == IF result[c].k = "error"
                  THEN LinkCatch(ApiError(result[c]))
                  ELSE NoError
       IN Finish(c, IF err = NoError THEN "completed" ELSE "failed: api", err)
    /\ UNCHANGED <<faultsLeft, now, workerState, queued, mgrVars, getVars,
                   callVars, event, remote, payload, runs, reqs, created, req>>

\* ------------------------------------------------------------ startWorker
\* start(): app.listen resolves and startWorker runs to its
\* await sellsyApi.getToken(), before any request is served.
StartWorker ==
    /\ workerState = "init"
    /\ pc["startup"] = "idle"
    /\ GetToken("startup", FALSE, NULL)
    /\ IF NeedsRefresh(FALSE)
       THEN /\ pc' = [pc EXCEPT !["startup"] = "awaitRefresh"]
            /\ UNCHANGED workerState
       ELSE /\ pc' = [pc EXCEPT !["startup"] = "done"]
            /\ workerState' = "running"
    /\ UNCHANGED <<faultsLeft, now, attempt, force, tok, awaited, gets, trace,
                   sleeps,
                   nReq, result, queued>>
    /\ UNCHANGED <<jobVars, req>>

\* the initial getToken settles: the Worker is registered, or start()
\* catches the error and calls process.exit(1)
WorkerReady ==
    /\ workerState = "init"
    /\ pc["startup"] = "resume"
    /\ pc' = [pc EXCEPT !["startup"] = "done"]
    /\ workerState' = IF awaited["startup"].k = "value"
                      THEN "running" ELSE "exited"
    /\ awaited' = [awaited EXCEPT !["startup"] = NoResult]
    /\ joined' = [joined EXCEPT !["startup"] = 0]
    /\ UNCHANGED <<faultsLeft, mgrVars, lastGet, now, attempt, force, tok,
                   gets, trace, sleeps, nReq, result, queued>>
    /\ UNCHANGED <<jobVars, req>>

\* ---------------------------------------------------------------- /health
HealthCheck ==
    /\ workerState # "exited"
    /\ pc["startup"] # "idle"
    /\ pc["health"] = "idle"
    /\ GetToken("health", FALSE, NULL)
    /\ IF NeedsRefresh(FALSE)
       THEN pc' = [pc EXCEPT !["health"] = "awaitRefresh"]
       ELSE \* 200 healthy
            UNCHANGED pc
    /\ UNCHANGED <<faultsLeft, now, workerState, attempt, force, tok, awaited,
                   gets, trace, sleeps, nReq, result, queued>>
    /\ UNCHANGED <<jobVars, req>>

\* the awaited getToken settles: 200 healthy, or 503 unhealthy from the catch
HealthReply ==
    /\ workerState # "exited"
    /\ pc["health"] = "resume"
    /\ pc' = [pc EXCEPT !["health"] = "idle"]
    /\ awaited' = [awaited EXCEPT !["health"] = NoResult]
    /\ joined' = [joined EXCEPT !["health"] = 0]
    /\ UNCHANGED <<faultsLeft, mgrVars, lastGet, now, workerState, attempt,
                   force, tok, gets, trace, sleeps, nReq, result, queued>>
    /\ UNCHANGED <<jobVars, req>>

\* ------------------------------------------------------------------ clock
Tick ==
    /\ workerState # "exited"
    /\ now < MaxNow
    /\ now' = now + TickMs
    /\ UNCHANGED <<faultsLeft, mgrVars, getVars, callVars, workerState, queued>>
    /\ UNCHANGED <<jobVars, req>>

\* ------------------------------------------------- webhook listener (gate)
\* The listener of POST /webhook/sellsy runs in its own process and shares
\* the queue "sellsy-webhooks" with the worker.  Request r carries event[r];
\* the job it adds is job r.
Signatures == {"valid", "invalid", "missing"}
Unsent(sig) == [sig |-> sig, state |-> "unsent", status |-> 0, adds |-> 0,
                stored |-> 0, failed |-> FALSE, logged |-> FALSE]

\* reply.code(200) of the catch
StatusOnError_500(err) == 500
StatusOnError(err) == 200

\* app.log.error(err) of the catch
LogOnError_Silent == FALSE
LogOnError == TRUE

\* what await webhookQueue.add(...) waits for: Redis has stored the job.
\* Nothing the worker does with the job is awaited.
Added_Unawaited(r) == TRUE
Added_AndProcessed(r) ==
    req[r].stored = req[r].adds /\ runs[r] >= 1 /\ step[r] = "idle"
Added(r) == req[r].stored = req[r].adds

\* The handler runs up to await webhookQueue.add("event", event, ...).  The
\* check of the signature is commented out: the headers are never read.
Receive(r) ==
    /\ req[r].state = "unsent"
    /\ req' = [req EXCEPT ![r].state = "adding",
                          ![r].adds = @ + 1]
    /\ UNCHANGED <<faultsLeft, now, workerState, queued, mgrVars, getVars,
                   callVars, jobVars>>

\* Redis stores the job: from now on the worker can take it
Persist(r) ==
    /\ req[r].state = "adding"
    /\ req[r].stored < req[r].adds
    /\ req' = [req EXCEPT ![r].stored = @ + 1]
    /\ queued' = queued \cup {r}
    /\ UNCHANGED <<faultsLeft, now, workerState, mgrVars, getVars, callVars,
                   jobVars>>

\* await webhookQueue.add resolves: reply.code(200).send({ ok: true })
AddResolves(r) ==
    /\ req[r].state = "adding"
    /\ Added(r)
    /\ req' = [req EXCEPT ![r].state = "replied", ![r].status = 200]
    /\ UNCHANGED <<faultsLeft, now, workerState, queued, mgrVars, getVars,
                   callVars, jobVars>>

\* await webhookQueue.add rejects (Redis cannot be reached, or its answer is
\* lost): the catch logs the error and replies
AddRejects(r) ==
    /\ req[r].state = "adding"
    /\ faultsLeft > 0
    /\ faultsLeft' = faultsLeft - 1
    /\ req' = [req EXCEPT ![r].state = "replied",
                          ![r].status = StatusOnError("add"),
                          ![r].failed = TRUE,
                          ![r].logged = LogOnError]
    /\ UNCHANGED <<now, workerState, queued, mgrVars, getVars, callVars,
                   jobVars>>

\* The same request (same body, same signature) is delivered again after it
\* was answered: the handler runs as for any request.  webhookQueue.add is
\* given no jobId, so BullMQ creates a new job for every add.
Replay(r) ==
    /\ req[r].state = "replied"
    /\ req[r].adds < MaxSends
    /\ req' = [req EXCEPT ![r].state = "adding",
                          ![r].adds = @ + 1]
    /\ UNCHANGED <<faultsLeft, now, workerState, queued, mgrVars, getVars,
                   callVars, jobVars>>

\* ---------------------------------------------------------- specification
\* the state after construction, before start() runs
Constructed ==
    /\ token = NULL
    /\ tokenExpiry = NULL
    /\ refreshPromise = NULL
    /\ now = 0
    /\ inflight = {}
    /\ exchCause = <<>>
    /\ nSettled = 0
    /\ lastSettle = "none"
    /\ workerState = "init"
    /\ pc = [p \in Procs |-> "idle"]
    /\ attempt = [c \in Jobs |-> 0]
    /\ force = [c \in Jobs |-> FALSE]
    /\ tok = [c \in Jobs |-> NULL]
    /\ joined = [p \in Procs |-> 0]
    /\ awaited = [p \in Procs |-> NoResult]
    /\ lastGet = NoGet
    /\ gets = [c \in Jobs |-> <<>>]
    /\ trace = [c \in Jobs |-> <<>>]
    /\ sleeps = [c \in Jobs |-> <<>>]
    /\ nReq = [c \in Jobs |-> 0]
    /\ result = [c \in Jobs |-> NoResult]

\* no job has been handled
JobsIdle ==
    /\ step = [c \in Jobs |-> "idle"]
    /\ outcome = [c \in Jobs |-> "none"]
    /\ payload = [c \in Jobs |-> NULL]
    /\ runs = [c \in Jobs |-> 0]
    /\ reqs = [c \in Jobs |-> [get |-> 0, post |-> 0]]
    /\ created = [c \in Jobs |-> 0]
    /\ thrown = [c \in Jobs |-> NoError]
    /\ linked = [c \in Jobs |-> "none"]

\* every job is about a signed estimate of a known company
TypicalEvent ==
    Event("estimate", "docslog", WebhookEstimate("signed", <<Contact, Company>>))
TypicalEstimate == [id |-> Num(1), status |-> "won", rows |-> Arr(<<RowA, RowB>>)]
Typical ==
    /\ event = [c \in Jobs |-> TypicalEvent]
    /\ remote = [c \in Jobs |-> TypicalEstimate]

\* the listener has received nothing
NoTraffic == req = [r \in Jobs |-> Unsent("valid")]

\* the worker with two jobs in the queue
Init ==
    /\ Constructed
    /\ JobsIdle
    /\ Typical
    /\ NoTraffic
    /\ queued = Jobs
    /\ faultsLeft = MaxFaults

\* the worker with one job in the queue
InitCall ==
    /\ Constructed
    /\ JobsIdle
    /\ Typical
    /\ NoTraffic
    /\ queued = {"j1"}
    /\ faultsLeft = MaxCallFaults

\* the worker with one job in the queue, about any event and any estimate
InitJob ==
    /\ Constructed
    /\ JobsIdle
    /\ NoTraffic
    /\ queued = {"j1"}
    /\ faultsLeft = MaxJobFaults
    /\ \E e \in Events :
          event = [c \in Jobs |-> IF c = "j1" THEN e ELSE TypicalEvent]
    /\ \E est \in Estimates :
          remote = [c \in Jobs |-> IF c = "j1" THEN est ELSE TypicalEstimate]

\* the worker with one job in the queue, about an accepted estimate with or
\* without a company, delivered once
InitRun ==
    /\ Constructed
    /\ JobsIdle
    /\ NoTraffic
    /\ queued = {"j1"}
    /\ faultsLeft = MaxCallFaults
    /\ \E rel \in Relations :
          event = [c \in Jobs |->
                    IF c = "j1"
                    THEN Event("estimate", "docslog",
                               WebhookEstimate("signed", rel))
                    ELSE TypicalEvent]
    /\ remote = [c \in Jobs |-> TypicalEstimate]

\* createInvoiceFromEstimate on its own: a webhook estimate of every kind
\* with the typical fetched estimate, or the typical webhook estimate with
\* a fetched estimate of every kind
InitPayload ==
    /\ Constructed
    /\ JobsIdle
    /\ NoTraffic
    /\ queued = {}
    /\ faultsLeft = 0
    /\ \/ /\ \E w \in WebhookInputs :
                event = [c \in Jobs |-> Event("estimate", "docslog", w)]
          /\ remote = [c \in Jobs |-> TypicalEstimate]
       \/ /\ event = [c \in Jobs |-> TypicalEvent]
          /\ \E est \in EstimateInputs : remote = [c \in Jobs |-> est]

\* the worker with two jobs in the queue, about two estimates of two
\* companies
OtherEvent ==
    Event("estimate", "docslog",
          [WebhookEstimate("won", <<Company2>>) EXCEPT
              !.id = Num(2), !.number = Str("D-2"), !.subject = Str("Autre")])
OtherEstimate == [id |-> Num(2), status |-> "won", rows |-> Arr(<<RowB>>)]
InitPair ==
    /\ Constructed
    /\ JobsIdle
    /\ NoTraffic
    /\ queued = Jobs
    /\ faultsLeft = MaxPairFaults
    /\ event = [c \in Jobs |-> IF c = "j1" THEN TypicalEvent ELSE OtherEvent]
    /\ remote = [c \in Jobs |->
                    IF c = "j1" THEN TypicalEstimate ELSE OtherEstimate]

\* the worker with one typical job in the queue and servers that may fail
\* every attempt of a call
InitFair ==
    /\ Constructed
    /\ JobsIdle
    /\ Typical
    /\ NoTraffic
    /\ queued = {"j1"}
    /\ faultsLeft = MaxCallFaults

\* the worker with one typical job in the queue
InitLive ==
    /\ Constructed
    /\ JobsIdle
    /\ Typical
    /\ NoTraffic
    /\ queued = {"j1"}
    /\ faultsLeft = MaxJobFaults

\* the listener and the worker, the queue empty, two requests on their way:
\* a typical event and an event without a company
InitGate ==
    /\ Constructed
    /\ JobsIdle
    /\ event = [c \in Jobs |->
                IF c = "j1" THEN TypicalEvent
                ELSE Event("estimate", "docslog",
                           WebhookEstimate("signed", <<Contact>>))]
    /\ remote = [c \in Jobs |-> TypicalEstimate]
    /\ queued = {}
    /\ faultsLeft = MaxGateFaults
    /\ req \in [Jobs -> {Unsent(sig) : sig \in Signatures}]

Next ==
    \/ StartWorker
    \/ WorkerReady
    \/ HealthCheck
    \/ HealthReply
    \/ \E e \in inflight : \E o \in ExchangeOutcomes(e) : SettleExchange(e, o)
    \/ \E c \in Jobs : StartCall(c)
    \/ \E c \in Jobs : ResumeCall(c)
    \/ \E c \in Jobs : \E r \in ApiResponses : ApiRespond(c, r)
    \/ \E c \in Jobs : ApiUnreachable(c)
    \/ \E c \in Jobs : BackoffDone(c)
    \/ Tick

\* the worker running the job handler of InvoiceCreator, every job
\* delivered once
NextRun ==
    \/ StartWorker
    \/ WorkerReady
    \/ HealthCheck
    \/ HealthReply
    \/ \E e \in inflight : \E o \in ExchangeOutcomes(e) : SettleExchange(e, o)
    \/ \E c \in Jobs : ProcessEvent(c)
    \/ \E c \in Jobs : EstimateFetched(c)
    \/ \E c \in Jobs : InvoiceCreated(c)
    \/ \E c \in Jobs : ResumeCall(c)
    \/ \E c \in Jobs : \E r \in ApiResponses : ApiRespond(c, r)
    \/ \E c \in Jobs : ApiUnreachable(c)
    \/ \E c \in Jobs : BackoffDone(c)
    \/ Tick

\* the worker running the job handler of InvoiceCreator on the jobs of the
\* queue, nobody asking for /health
NextPair ==
    \/ StartWorker
    \/ WorkerReady
    \/ \E e \in inflight : \E o \in ExchangeOutcomes(e) : SettleExchange(e, o)
    \/ \E c \in Jobs : ProcessEvent(c)
    \/ \E c \in Jobs : EstimateFetched(c)
    \/ \E c \in Jobs : InvoiceCreated(c)
    \/ \E c \in Jobs : ResumeCall(c)
    \/ \E c \in Jobs : \E r \in ApiResponses : ApiRespond(c, r)
    \/ \E c \in Jobs : ApiUnreachable(c)
    \/ \E c \in Jobs : BackoffDone(c)
    \/ Tick

\* the worker running the job handler of InvoiceCreator, the queue
\* delivering at least once
NextJob ==
    \/ StartWorker
    \/ WorkerReady
    \/ HealthCheck
    \/ HealthReply
    \/ \E e \in inflight : \E o \in ExchangeOutcomes(e) : SettleExchange(e, o)
    \/ \E c \in Jobs : ProcessEvent(c)
    \/ \E c \in Jobs : EstimateFetched(c)
    \/ \E c \in Jobs : InvoiceCreated(c)
    \/ \E c \in Jobs : Redeliver(c)
    \/ \E c \in Jobs : ResumeCall(c)
    \/ \E c \in Jobs : \E r \in ApiResponses : ApiRespond(c, r)
    \/ \E c \in Jobs : ApiUnreachable(c)
    \/ \E c \in Jobs : BackoffDone(c)
    \/ Tick

\* the listener feeding the queue of the worker
NextGate ==
    \/ \E r \in Jobs : Receive(r)
    \/ \E r \in Jobs : Persist(r)
    \/ \E r \in Jobs : AddResolves(r)
    \/ \E r \in Jobs : AddRejects(r)
    \/ StartWorker
    \/ WorkerReady
    \/ \E e \in inflight : \E o \in ExchangeOutcomes(e) : SettleExchange(e, o)
    \/ \E c \in Jobs : ProcessEvent(c)
    \/ \E c \in Jobs : EstimateFetched(c)
    \/ \E c \in Jobs : InvoiceCreated(c)
    \/ \E c \in Jobs : ResumeCall(c)
    \/ \E c \in Jobs : \E r \in ApiResponses : ApiRespond(c, r)
    \/ \E c \in Jobs : ApiUnreachable(c)
    \/ \E c \in Jobs : BackoffDone(c)

\* the listener alone, its requests sent once or more.  queued holds the
\* events with a job waiting, req[r].stored counts the jobs stored.
NextReplay ==
    \/ \E r \in Jobs : Receive(r)
    \/ \E r \in Jobs : Persist(r)
    \/ \E r \in Jobs : AddResolves(r)
    \/ \E r \in Jobs : AddRejects(r)
    \/ \E r \in Jobs : Replay(r)

\* the consumer.js revision of the worker, every job delivered once
NextLink ==
    \/ StartWorker
    \/ WorkerReady
    \/ \E e \in inflight : \E o \in ExchangeOutcomes(e) : SettleExchange(e, o)
    \/ \E c \in Jobs : ProcessEvent(c)
    \/ \E c \in Jobs : ConsumerEstimateFetched(c)
    \/ \E c \in Jobs : ConsumerInvoiceCreated(c)
    \/ \E c \in Jobs : InvoiceLinked(c)
    \/ \E c \in Jobs : ResumeCall(c)
    \/ \E c \in Jobs : \E r \in ApiResponses : ApiRespond(c, r)
    \/ \E c \in Jobs : ApiUnreachable(c)
    \/ \E c \in Jobs : BackoffDone(c)
    \/ Tick

NextPayload == \E c \in Jobs : BuildPayload(c)

Spec == Init /\ [][Next]_vars
SpecCall == InitCall /\ [][Next]_vars
SpecJob == InitJob /\ [][NextJob]_vars
SpecRun == InitRun /\ [][NextRun]_vars
SpecPair == InitPair /\ [][NextPair]_vars
SpecPayload == InitPayload /\ [][NextPayload]_vars
SpecLink == InitCall /\ [][NextLink]_vars
SpecGate == InitGate /\ [][NextGate]_vars
SpecReplay == InitGate /\ [][NextReplay]_vars

\* What the event loop and the queue do on their own once it is possible:
\* continuations of settled promises run, timers fire, a waiting job is
\* taken.  When the remote servers answer is not up to the program: no
\* fetch carries a signal or a timeout.
Program ==
    \/ StartWorker
    \/ WorkerReady
    \/ HealthReply
    \/ \E c \in Jobs : ProcessEvent(c)
    \/ \E c \in Jobs : EstimateFetched(c)
    \/ \E c \in Jobs : InvoiceCreated(c)
    \/ \E c \in Jobs : ResumeCall(c)
    \/ \E c \in Jobs : BackoffDone(c)
SpecLive == InitLive /\ [][NextJob]_vars /\ WF_vars(Program)

\* every outbound request is answered in the end, with a response or with
\* an error: the exchange awaited, and the request of each job
Answered(c) ==
    \/ \E r \in ApiResponses : ApiRespond(c, r)
    \/ ApiUnreachable(c)
ExchangeAnswered ==
    \E e \in inflight : \E o \in ExchangeOutcomes(e) : SettleExchange(e, o)
SpecFair ==
    /\ InitFair
    /\ [][NextPair]_vars
    /\ WF_vars(Program)
    /\ WF_vars(ExchangeAnswered)
    /\ \A c \in Jobs : WF_vars(Answered(c))

TypeOK ==
    /\ now \in 0..(MaxNow + TickMs)
    /\ workerState \in {"init", "running", "exited"}
    /\ \A p \in Procs : pc[p] \in
            {"idle", "awaitRefresh", "resume", "fetch", "backoff", "done"}

\* ----------------------------------------------------------------- claims
Resumed(e) == {p \in Procs : pc[p] = "resume" /\ joined[p] = e}
Done(c) == pc[c] = "idle" /\ result[c] # NoResult
Unauthorized == [status |-> 401, body |-> "denied"]
\* an entry of trace that is a response with a non-success status
NonSuccess(r) == r.status # 0 /\ ~Ok(r)
\* an entry of trace that consumed one attempt of the budget
Failure(r) == r # ApiOk

\* C1: callers that find no valid token while an exchange is awaited all
\* await one and the same exchange, the only one issued since the last one
\* settled, and each of them receives the token that exchange produced.
C1_SingleFlight ==
    /\ \A p \in Procs : pc[p] = "awaitRefresh" =>
            /\ joined[p] = nSettled + 1
            /\ nStarted = nSettled + 1
            /\ inflight = {joined[p]}
    /\ \A p \in Procs : pc[p] = "resume" /\ awaited[p].k = "value" =>
            /\ awaited[p].v \in {Tok(joined[p]), UNDEFINED}
            /\ \A q \in Resumed(joined[p]) : awaited[q] = awaited[p]

\* three callers were served by the second exchange, and no third was issued
C1_Witness ==
    /\ nStarted = 2
    /\ Cardinality({p \in Resumed(2) :
            awaited[p] = [k |-> "value", v |-> Tok(2)]}) = 3

\* C2: at most one credential exchange is outstanding, and refreshPromise is
\* non-null exactly while that exchange is outstanding.
C2_OneExchange ==
    /\ Cardinality(inflight) <= 1
    /\ nStarted - nSettled = Cardinality(inflight)
    /\ (refreshPromise = NULL) <=> (inflight = {})
    /\ refreshPromise # NULL => inflight = {refreshPromise.of}

\* a forced and an ordinary caller share an exchange after an earlier one
\* has settled
C2_Witness ==
    /\ nSettled >= 1
    /\ refreshPromise # NULL
    /\ pc["health"] = "awaitRefresh"
    /\ \E c \in Jobs : pc[c] = "awaitRefresh" /\ force[c]
                       /\ joined[c] = joined["health"]

\* C3 as stated: no two credential exchanges are started for 401 answers to
\* the same token.
C3_OneRefreshPerInvalidation ==
    \A i, j \in 1..Len(exchCause) :
        (i # j /\ exchCause[i].k = "tok") => exchCause[i] # exchCause[j]

\* the jobs that hold a 401 for token t and await an exchange for it
Refused(t) ==
    {c \in Jobs : /\ pc[c] = "awaitRefresh"
                  /\ tok[c] = t
                  /\ trace[c] # <<>>
                  /\ trace[c][Len(trace[c])] = Unauthorized}

\* C3: 401 answers to one token that arrive while the exchange started for
\* the first of them is in flight start no other exchange: the jobs holding
\* them await that exchange, and a further exchange for the same token is
\* started only after the earlier one has settled.
C3_OneRefreshWhileInFlight ==
    /\ \A i, j \in 1..Len(exchCause) :
            (i < j /\ exchCause[i].k = "tok" /\ exchCause[i] = exchCause[j])
                => i \notin inflight
    /\ \A c \in Jobs : c \in Refused(tok[c]) => inflight = {joined[c]}

\* two jobs hold a 401 for the same token and await the one exchange started
\* for it
C3_Witness ==
    /\ Cardinality(Refused(Tok(1))) = 2
    /\ exchCause = <<NULL, Tok(1)>>

\* C4: a getToken call is served from the cache exactly when it is not forced
\* and the cached token has more than 60 s left; otherwise the caller awaits
\* an exchange.
C4_HandOut ==
    /\ lastGet.via = "cache" =>
            /\ ~lastGet.force
            /\ lastGet.token = "tok"
            /\ lastGet.expiry = "num"
            /\ lastGet.left > SafetyMargin
    /\ (lastGet.via # "none"
        /\ (lastGet.force \/ lastGet.token # "tok" \/ lastGet.expiry # "num"
            \/ lastGet.left <= SafetyMargin)) => lastGet.via = "exchange"
    /\ \A c \in Jobs :
            (pc[c] = "fetch" /\ gets[c][Len(gets[c])] = "exchange") =>
                tok[c] \in {Tok(joined[c]), UNDEFINED}

\* a job was handed the cached token and has sent its request with it, and
\* another caller was made to wait
C4_Witness ==
    /\ lastGet.via = "cache"
    /\ lastGet.left > SafetyMargin
    /\ \E c \in Jobs : /\ pc[c] = "fetch"
                       /\ gets[c] = <<"cache">>
                       /\ tok[c] = token
    /\ \E c \in Jobs : gets[c] = <<"exchange">>

\* C5: after a failed exchange every waiter has the failure and the manager
\* is in NoToken: a getToken(false) would start a fresh exchange.
C5_FailureResets ==
    (lastSettle = "fail" /\ nStarted = nSettled) =>
        /\ \A p \in Resumed(nSettled) : awaited[p].k = "error"
        /\ NeedsRefresh(FALSE)

\* C6: no undefined token (and no expiry computed from a missing expires_in)
\* is stored, returned to a caller or attached to a request.
C6_NoUndefinedToken ==
    /\ token # UNDEFINED
    /\ tokenExpiry # NaN
    /\ \A p \in Procs : pc[p] = "resume" =>
            awaited[p] # [k |-> "value", v |-> UNDEFINED]
    /\ \A c \in Jobs : pc[c] = "fetch" => tok[c] # UNDEFINED

\* C7: a call that starts on the cached token and whose attempts end 401 then
\* 200 awaited exactly one exchange, a forced one, issued exactly two
\* requests, sent the retry with the token of that exchange and returned the
\* body of the 200.
C7_RetryAfter401 ==
    \A c \in Jobs :
        (/\ Done(c)
         /\ trace[c] = <<Unauthorized, ApiOk>>
         /\ gets[c][1] = "cache") =>
            /\ gets[c] = <<"cache", "exchange">>
            /\ force[c]
            /\ nReq[c] = 2
            /\ tok[c] \in {Tok(joined[c]), UNDEFINED}
            /\ result[c] = [k |-> "value", body |-> ApiOk.body]

C7_Witness ==
    \E c \in Jobs :
        /\ Done(c)
        /\ trace[c] = <<Unauthorized, ApiOk>>
        /\ gets[c] = <<"cache", "exchange">>
        /\ tok[c] = Tok(joined[c])

\* C8: a call all of whose requests were answered with a non-success status
\* issued exactly maxRetries requests and rejected with the status and body
\* of the last response.
C8_ExhaustsWithLastError ==
    \A c \in Jobs :
        (/\ Done(c)
         /\ \A i \in 1..Len(trace[c]) : NonSuccess(trace[c][i])) =>
            /\ nReq[c] = maxRetries
            /\ result[c] = Rejected(trace[c][Len(trace[c])].status,
                                    ErrorBody(trace[c][Len(trace[c])]))

\* C9: a call never completes with no value: it returns a parsed body or
\* rejects with an error.
C9_NeverResolvesEmpty ==
    \A c \in Jobs : Done(c) => result[c].k \in {"value", "error"}

\* C10: every outcome that is not a success, a 401 included, consumes one
\* attempt, and a call uses at most maxRetries attempts and requests.
C10_BoundedAttempts ==
    \A c \in Jobs :
        /\ attempt[c] <= maxRetries
        /\ nReq[c] <= maxRetries
        /\ Len(SelectSeq(trace[c], Failure)) = attempt[c]

\* a call spent its whole budget, part of it on 401 answers
C10_Witness ==
    \E c \in Jobs :
        /\ Done(c)
        /\ attempt[c] = maxRetries
        /\ nReq[c] = maxRetries
        /\ trace[c][1] = Unauthorized
        /\ trace[c][2] # Unauthorized

\* the trigger pair, the acceptance set and a resolvable company, as the
\* claims state them
Trigger(ev) == ev.relatedtype = "estimate" /\ ev.eventType = "docslog"
Accepted(status) == status \in {"accepted", "won", "signed"}
HasCompany(related) ==
    \E i \in 1..Len(related) : related[i].type = "company"

\* requests the latest execution of job c has issued, per endpoint
GetsSent(c) == IF step[c] = "get" THEN nReq[c] ELSE reqs[c].get
PostsSent(c) == IF step[c] = "post" THEN nReq[c] ELSE reqs[c].post
\* the latest execution of job c has ended
Ended(c) == runs[c] >= 1 /\ step[c] = "idle" /\ c \notin queued
Failed(c) == outcome[c] \in {"failed: api", "failed: client", "failed: TypeError"}

\* C11: for a relevant event a create-invoice request is issued only if the
\* status of the estimate fetched from the API is in the acceptance set, and
\* an execution that completes on an estimate whose fetched status is in the
\* set has issued one; the status of the webhook payload does not decide.
C11_FetchedStatusDecides ==
    \A c \in Jobs : Trigger(event[c]) =>
        /\ PostsSent(c) > 0 => Accepted(remote[c].status)
        /\ (Ended(c) /\ outcome[c] = "completed"
            /\ Accepted(remote[c].status)) => PostsSent(c) > 0

\* every call of the latest execution succeeded at its first request
AllCallsSucceed(c) ==
    /\ Ended(c)
    /\ GetsSent(c) <= 1
    /\ PostsSent(c) <= 1
    /\ trace[c] \in {<<>>, <<ApiOk>>}
    /\ ~Failed(c) \/ outcome[c] = "failed: client"

\* C12: an execution on a relevant event whose estimate has an accepted
\* status at the API and a resolvable company, in which every API call
\* succeeded, issued exactly one create-invoice call, and the rows of its
\* payload are the rows of the estimate, one for one and in order.
C12_OneCreateWithMappedRows ==
    \A c \in Jobs :
        (/\ Trigger(event[c])
         /\ Accepted(remote[c].status)
         /\ HasCompany(event[c].relatedobject.related)
         /\ AllCallsSucceed(c)) =>
            /\ PostsSent(c) = 1
            /\ payload[c] # NULL
            /\ LET src == IF remote[c].rows.k = "array"
                           THEN remote[c].rows.items ELSE <<>>
               IN /\ Len(payload[c].rows) = Len(src)
                  /\ \A i \in 1..Len(src) :
                        payload[c].rows[i].description = src[i].description

\* C13: the execution of a job whose event is not (estimate, docslog)
\* completes in the step that takes it from the queue: it ends without
\* error, has issued no request and leaves the token cache, every call and
\* the invoices created as they were.
C13_IrrelevantIsNoOp ==
    [][\A c \in Jobs :
        (~Trigger(event[c]) /\ runs'[c] # runs[c]) =>
            /\ outcome'[c] = "completed"
            /\ step'[c] = "idle"
            /\ reqs'[c] = [get |-> 0, post |-> 0]
            /\ payload'[c] = NULL
            /\ UNCHANGED <<mgrVars, getVars, callVars, created>>]_vars

\* an event about another object, or about another change of an estimate,
\* was consumed while the worker held a token
C13_Witness ==
    \E c \in Jobs :
        /\ ~Trigger(event[c])
        /\ Ended(c)
        /\ outcome[c] = "completed"
        /\ token # NULL
        /\ nReq[c] = 0

\* C14: a job on a relevant event without a company in its relation list
\* never issues a create-invoice request, and when the event is accepted
\* every execution of it that ends has failed.
C14_NoCompanyFailsWithoutCreate ==
    \A c \in Jobs :
        (/\ Trigger(event[c])
         /\ ~HasCompany(event[c].relatedobject.related)) =>
            /\ PostsSent(c) = 0
            /\ step[c] # "post"
            /\ payload[c] = NULL
            /\ created[c] = 0
            /\ (Accepted(event[c].relatedobject.status) /\ Ended(c))
                    => Failed(c)

\* the estimate was fetched at the third attempt, no company was found and
\* the job failed
C14_Witness ==
    \E c \in Jobs :
        /\ Ended(c)
        /\ outcome[c] = "failed: client"
        /\ GetsSent(c) = maxRetries
        /\ PostsSent(c) = 0

\* C15: over all executions of the job of one accepted estimate at most one
\* create-invoice request succeeds.
C15_AtMostOneInvoice ==
    \A c \in Jobs : created[c] <= 1

\* C16: no outbound call keeps a job forever: every execution that has
\* started ends, completed or failed.
C16_EveryJobEnds ==
    \A c \in Jobs : (step[c] # "idle") ~> (step[c] = "idle")

\* C17: a request whose signature is missing or does not verify is answered
\* 401 and nothing is added to the queue for it.
C17_BadSignatureRejected ==
    \A r \in Jobs : req[r].sig # "valid" =>
        /\ req[r].adds = 0
        /\ req[r].stored = 0
        /\ req[r].state = "replied" => req[r].status = 401

\* C18: a request the listener accepts is answered once, with 200, after
\* exactly one enqueue operation that stores at most one job (exactly one
\* when it resolves), and the answer is ready as soon as Redis has stored
\* the job, whatever the worker has or has not done with it.
C18_OneReplyOneEnqueue ==
    \A r \in Jobs :
        /\ req[r].adds <= 1
        /\ req[r].stored <= req[r].adds
        /\ req[r].state = "replied" =>
                /\ req[r].status = 200
                /\ req[r].adds = 1
                /\ ~req[r].failed => req[r].stored = 1
        /\ (req[r].state = "adding" /\ req[r].stored = 1)
                => ENABLED AddResolves(r)

\* a request was answered 200 while its job still waits in the queue of a
\* worker that has not started
C18_Witness ==
    \E r \in Jobs :
        /\ req[r].state = "replied"
        /\ req[r].status = 200
        /\ ~req[r].failed
        /\ r \in queued
        /\ runs[r] = 0
        /\ workerState = "init"

\* C19: when the enqueue operation fails the request is answered 200 all
\* the same and the error is logged; no answer carries another status,
\* whatever becomes of the job.
C19_AlwaysSuccess ==
    \A r \in Jobs :
        /\ req[r].failed =>
                /\ req[r].state = "replied"
                /\ req[r].status = 200
                /\ req[r].logged
        /\ req[r].state = "replied" => req[r].status = 200

\* the enqueue of one request failed before Redis stored anything, and the
\* job of the other request has failed in the worker
C19_Witness ==
    \E r, q \in Jobs :
        /\ req[r].failed
        /\ req[r].stored = 0
        /\ req[r].status = 200
        /\ req[r].logged
        /\ req[q].status = 200
        /\ Failed(q)

C21_ReplayAddsNoJob ==
    \A r \in Jobs : req[r].sig = "valid" => req[r].stored <= 1

\* the errors the queue never retries, whatever the attempts of the job
Unrecoverable(err) == err.name = "UnrecoverableError"

\* C22: a job that fails because the estimate has no company rejects with
\* an error the queue does not retry, and the queue can tell that error
\* from the error of an API call that failed.
C22_MissingClientIsHardFailure ==
    \A c \in Jobs :
        (Ended(c) /\ outcome[c] = "failed: client") =>
            /\ Unrecoverable(thrown[c])
            /\ thrown[c].name \notin {"Error", "TypeError", "SyntaxError"}

\* C23: the PATCH that links the invoice to the estimate is sent only after
\* the create-invoice call of the execution succeeded, and an execution
\* whose create-invoice call succeeded completes without error, whether the
\* PATCH succeeded or its call gave up.
C23_BackLinkNeverFailsJob ==
    \A c \in Jobs :
        /\ (step[c] = "patch" \/ linked[c] # "none") =>
                /\ created[c] = 1
                /\ reqs[c].post >= 1
        /\ (Ended(c) /\ created[c] = 1) =>
                /\ outcome[c] = "completed"
                /\ thrown[c] = NoError
                /\ linked[c] # "none"

\* the invoice was created, the PATCH failed three times and the job
\* completed
C23_Witness ==
    \E c \in Jobs :
        /\ Ended(c)
        /\ created[c] = 1
        /\ linked[c] = "caught"
        /\ nReq[c] = maxRetries
        /\ outcome[c] = "completed"

\* a makeApiCall of job c begins in this step
CallStarts(c) == pc[c] = "idle" /\ pc'[c] # "idle"

\* C24: an execution in which the fetch, the resolution of the company or
\* the create step failed ends rejected with an error, never completed;
\* and the handler starts its calls in order, the fetch when the job is
\* taken and the create when the fetch has returned, each at most once per
\* execution.
C24_FailuresRejectAndNoRetry ==
    /\ [](\A c \in Jobs :
            /\ (Ended(c) /\ result[c].k \in {"error", "undefined"}) =>
                    (Failed(c) /\ thrown[c] # NoError)
            /\ (Ended(c) /\ Trigger(event[c])
                 /\ Accepted(event[c].relatedobject.status)
                 /\ ~HasCompany(event[c].relatedobject.related)) =>
                    (Failed(c) /\ thrown[c] # NoError)
            /\ (Ended(c) /\ outcome[c] = "completed") =>
                    (thrown[c] = NoError /\ result[c].k \in {"none", "value"}))
    /\ [][\A c \in Jobs :
            /\ CallStarts(c) =>
                    \/ step[c] = "idle" /\ step'[c] = "get" /\ runs'[c] = runs[c] + 1
                    \/ step[c] = "get" /\ step'[c] = "post" /\ runs'[c] = runs[c]
            /\ step'[c] # step[c] =>
                    <<step[c], step'[c]>> \in
                        {<<"idle", "get">>, <<"get", "post">>,
                         <<"get", "idle">>, <<"post", "idle">>}]_vars

\* the fetch succeeded, the create call failed three times and the job was
\* rejected with the error of the last attempt
C24_Witness ==
    \E c \in Jobs :
        /\ Ended(c)
        /\ outcome[c] = "failed: api"
        /\ thrown[c].name = "Error"
        /\ reqs[c].get = 1
        /\ reqs[c].post = maxRetries

\* every attempt of the call ended on a failed credential exchange
OnlyExchangesFailed(c) ==
    /\ trace[c] # <<>>
    /\ \A i \in 1..Len(trace[c]) : trace[c][i] = TokenError

\* C25: the settling of a failed exchange starts no other exchange; a call
\* told of the failure spends one attempt and asks for a token again only
\* after its backoff; a call all of whose attempts met a failed exchange
\* awaited maxRetries exchanges, issued no request and rejected with the
\* error of the exchange.
C25_FailedExchangeSpendsAttempt ==
    /\ [](\A c \in Jobs :
            /\ OnlyExchangesFailed(c) =>
                    /\ attempt[c] = Len(trace[c])
                    /\ \A i \in 1..Len(trace[c]) : gets[c][i] = "exchange"
            /\ (Done(c) /\ OnlyExchangesFailed(c)) =>
                    /\ nReq[c] = 0
                    /\ Len(trace[c]) = maxRetries
                    /\ Len(gets[c]) = maxRetries
                    /\ nSettled >= maxRetries
                    /\ result[c] = Rejected(0, "token"))
    /\ [][/\ (nSettled' # nSettled /\ lastSettle' = "fail") =>
                /\ exchCause' = exchCause
                /\ inflight' \subseteq inflight
                /\ refreshPromise' = NULL
           /\ \A c \in Jobs :
                (pc[c] = "resume" /\ awaited[c].k = "error"
                 /\ pc'[c] # "resume") =>
                    /\ attempt'[c] = attempt[c] + 1
                    /\ exchCause' = exchCause
                    /\ pc'[c] = IF attempt'[c] < maxRetries THEN "backoff"
                                ELSE "idle"]_vars

\* the token ran out, the exchange failed three times and the call
\* rejected without a request
C25_Witness ==
    \E c \in Jobs :
        /\ Done(c)
        /\ trace[c] = <<TokenError, TokenError, TokenError>>
        /\ gets[c] = <<"exchange", "exchange", "exchange">>
        /\ nReq[c] = 0
        /\ result[c] = Rejected(0, "token")
        /\ nSettled = maxRetries + 1

\* the call of job c asks for a token in this step
AsksToken(c) == gets'[c] # gets[c] /\ gets'[c] # <<>>

\* C26: the first getToken of a call is not forced, and a getToken of a
\* call is forced only if an earlier attempt of that call was answered 401.
C26_ForcedOnlyAfter401 ==
    /\ [](\A c \in Jobs :
            force[c] => \E i \in 1..Len(trace[c]) : trace[c][i] = Unauthorized)
    /\ [][\A c \in Jobs : AsksToken(c) =>
            /\ lastGet'.force = force'[c]
            /\ Len(gets'[c]) = 1 => ~lastGet'.force
            /\ lastGet'.force =>
                    \E i \in 1..Len(trace'[c]) : trace'[c][i] = Unauthorized]_vars

\* the second attempt, after a 500, asked without forcing, and the third,
\* after a 401, forced the refresh
C26_Witness ==
    \E c \in Jobs :
        /\ trace[c] = <<[status |-> 500, body |-> "oops"], Unauthorized>>
        /\ gets[c] = <<"cache", "cache", "exchange">>
        /\ lastGet.force
        /\ pc[c] = "awaitRefresh"

\* the attempts of the call of job c that failed otherwise than on a 401
OtherFailures(c) ==
    {i \in 1..Len(trace[c]) : Failure(trace[c][i]) /\ trace[c][i] # Unauthorized}

NullOrEmpty(x) == x = NULL \/ x = Str("")
\* a field of a row of the estimate has a value
Carries(x) == x.k \notin {"undefined", "null"}

\* C28: in every row of the payload the tax reference is there only if the
\* row of the estimate carries a tax, the product reference only if it
\* carries a product, and no field of a row or of the top level of the
\* payload is null or the empty string.
C28_OptionalFieldsOnlyWhenPresent ==
    \A c \in Jobs : payload[c] # NULL =>
        /\ ~NullOrEmpty(payload[c].subject)
        /\ ~NullOrEmpty(payload[c].currency)
        /\ ~NullOrEmpty(payload[c].note)
        /\ \A i \in 1..Len(payload[c].rows) :
            LET src == remote[c].rows.items[i]
                row == payload[c].rows[i]
            IN /\ row.tax_id # ABSENT => (Carries(src.tax) \/ Carries(src.tax1))
               /\ row.reference # ABSENT => Carries(src.product)
               /\ ~NullOrEmpty(row.description)
               /\ ~NullOrEmpty(row.quantity)
               /\ ~NullOrEmpty(row.unit_amount)
               /\ ~NullOrEmpty(row.tax_id)
               /\ ~NullOrEmpty(row.reference)

\* a payload was built from a row without description, quantity, tax or
\* product and from a webhook estimate with an empty note
C28_Witness ==
    \E c \in Jobs :
        /\ payload[c] # NULL
        /\ Len(payload[c].rows) = 2
        /\ remote[c].rows.items[2].description = Str("")
        /\ remote[c].rows.items[2].quantity = Str("")
        /\ remote[c].rows.items[2].product = NULL
        /\ payload[c].rows[2].tax_id = ABSENT
        /\ payload[c].rows[2].reference = ABSENT
        /\ payload[c].rows[2].quantity = Str("1")
        /\ event[c].relatedobject.note = Str("")
        /\ payload[c].note = ABSENT

\* the first company of a relation list
FirstCompany(related) ==
    CHOOSE i \in 1..Len(related) :
        /\ related[i].type = "company"
        /\ \A j \in 1..(i - 1) : related[j].type # "company"

\* C29: every payload has the parent {estimate, id of the fetched estimate}
\* and exactly one related entry, of type company, whose id is the id of
\* the company found in the relation list of the estimate of the event.
C29_ParentAndCompany ==
    \A c \in Jobs : payload[c] # NULL =>
        /\ payload[c].parent = [type |-> "estimate", id |-> remote[c].id]
        /\ Len(payload[c].related) = 1
        /\ payload[c].related[1].type = "company"
        /\ HasCompany(event[c].relatedobject.related)
        /\ LET related == event[c].relatedobject.related
           IN payload[c].related[1].id = related[FirstCompany(related)].id

\* a payload was built for an estimate whose relation list names two
\* companies
C29_Witness ==
    \E c \in Jobs :
        /\ payload[c] # NULL
        /\ event[c].relatedobject.related = <<Company2, Contact, Company>>
        /\ payload[c].related = <<[id |-> Num(12), type |-> "company"]>>

\* the cached token is valid for more than 60 s
CacheValid ==
    /\ token.k = "tok"
    /\ tokenExpiry.k = "num"
    /\ tokenExpiry.v - now > 60000

\* C30: a getToken(false) of a call made while the cached token is valid
\* for more than 60 s hands the cached token to the call in the same step,
\* the request leaves with it, no exchange is started or joined, and token,
\* tokenExpiry and refreshPromise stay as they were, an exchange of another
\* caller being in flight or not.
C30_ValidReadLeavesCacheAlone ==
    [][\A c \in Jobs : (AsksToken(c) /\ ~force'[c] /\ CacheValid) =>
            /\ gets'[c][Len(gets'[c])] = "cache"
            /\ pc'[c] = "fetch"
            /\ tok'[c] = token
            /\ joined'[c] = joined[c]
            /\ UNCHANGED <<token, tokenExpiry, refreshPromise, inflight,
                           exchCause, nSettled, lastSettle>>]_vars

\* a call was handed the cached token while the exchange another call had
\* forced was in flight
C30_Witness ==
    /\ lastGet.via = "cache"
    /\ ~lastGet.force
    /\ refreshPromise # NULL
    /\ inflight # {}
    /\ \E c, d \in Jobs :
            /\ pc[c] = "fetch" /\ gets[c] = <<"cache">> /\ tok[c] = token
            /\ pc[d] = "awaitRefresh" /\ force[d]

\* what an execution of job c keeps for itself
OwnState(c) == <<step[c], outcome[c], payload[c], reqs[c], thrown[c], runs[c],
                 created[c], attempt[c], trace[c], nReq[c], result[c]>>

\* C31: a job that has built a payload has sent a GET of its own, and the
\* payload is made of its own event and of the estimate its own GET
\* returned, whatever the other job does; a step that builds the payload of
\* one job changes nothing another job keeps for itself.
C31_JobsShareOnlyTheToken ==
    /\ [](\A c \in Jobs : payload[c] # NULL =>
            /\ GetsSent(c) >= 1
            /\ payload[c].parent.id = remote[c].id
            /\ Len(payload[c].rows) = Len(remote[c].rows.items)
            /\ \A i \in 1..Len(payload[c].rows) :
                    payload[c].rows[i].description =
                        remote[c].rows.items[i].description
            /\ payload[c].subject = event[c].relatedobject.subject
            /\ \E i \in 1..Len(event[c].relatedobject.related) :
                    /\ event[c].relatedobject.related[i].type = "company"
                    /\ payload[c].related[1].id =
                            event[c].relatedobject.related[i].id)
    /\ [][\A c, d \in Jobs :
            (c # d /\ payload'[c] # payload[c]) =>
                OwnState(d)' = OwnState(d)]_vars

\* the two jobs await their POST at the same time, each with the payload
\* of its own estimate
C31_Witness ==
    /\ step["j1"] = "post" /\ step["j2"] = "post"
    /\ pc["j1"] = "fetch" /\ pc["j2"] = "fetch"
    /\ payload["j1"].parent.id = Num(1)
    /\ payload["j2"].parent.id = Num(2)
    /\ Len(payload["j1"].rows) = 2
    /\ Len(payload["j2"].rows) = 1

\* C32: the job handler is registered only after the initial credential
\* exchange has completed with success, so that no job is processed before a
\* token has been obtained once: while the initial exchange is the only one
\* that has settled, a registered worker or a processed job implies a token
\* in the cache; and an initial exchange that fails ends the process
\* without a worker.
C32_NoJobBeforeToken ==
    /\ workerState = "running" => nSettled >= 1
    /\ \A c \in Jobs : runs[c] >= 1 => workerState = "running"
    /\ (nSettled = 1 /\ workerState = "running") => token.k = "tok"
    /\ (nSettled = 1 /\ lastSettle = "fail") => workerState # "running"

\* the parts of C32 about the order of the steps: registration follows the
\* settling of the initial exchange, and its failure ends the process
C32_RegisteredAfterExchange ==
    /\ workerState = "running" => nSettled >= 1
    /\ \A c \in Jobs : runs[c] >= 1 => workerState = "running"
    /\ (nSettled = 1 /\ lastSettle = "fail") => workerState # "running"

\* C33: an execution starts its create-invoice call only from the fetch step
\* and only when the GET has been answered with success, so a POST is sent
\* only by an execution that has sent a GET before; an execution whose GET
\* has used up its attempts without success ends failed, with an error, and
\* has sent no POST.
C33_PostOnlyAfterSuccessfulGet ==
    /\ [](\A c \in Jobs : PostsSent(c) >= 1 => reqs[c].get >= 1)
    /\ [][\A c \in Jobs :
            /\ (step'[c] = "post" /\ step[c] # "post") =>
                    /\ step[c] = "get"
                    /\ runs'[c] = runs[c]
                    /\ result[c].k = "value"
                    /\ trace[c] # <<>>
                    /\ trace[c][Len(trace[c])] = ApiOk
            /\ (step[c] = "get" /\ step'[c] # "get"
                 /\ attempt[c] >= maxRetries /\ result[c].k # "value") =>
                    /\ step'[c] = "idle"
                    /\ outcome'[c] \in {"failed: api", "failed: TypeError"}
                    /\ thrown'[c] # NoError
                    /\ reqs'[c].post = 0]_vars

\* the GET was sent three times and never succeeded: the execution is over,
\* rejected, and no payload was built
C33_Witness ==
    \E c \in Jobs :
        /\ Ended(c)
        /\ Failed(c)
        /\ attempt[c] = maxRetries
        /\ reqs[c].get = maxRetries
        /\ reqs[c].post = 0
        /\ payload[c] = NULL

\* a step in which an exchange settles, with failure or with success
ExchangeFails == nSettled' = nSettled + 1 /\ lastSettle' = "fail"
ExchangeSucceeds == nSettled' = nSettled + 1 /\ lastSettle' = "ok"

\* C34: at most one exchange is in flight, a step in which an exchange fails
\* leaves the cached token and its expiry as they are, no other step than
\* the success of an exchange changes either of them, and the success of an
\* exchange stores the token of the answer together with, for an answer
\* that tells expires_in, the time of the answer plus expires_in seconds.
C34_OnlySuccessWritesCache ==
    /\ [](Cardinality(inflight) <= 1)
    /\ [][/\ ExchangeFails => (token' = token /\ tokenExpiry' = tokenExpiry)
          /\ (token' # token \/ tokenExpiry' # tokenExpiry) => ExchangeSucceeds
          /\ ExchangeSucceeds =>
                \E e \in inflight : \E o \in ExchangeOutcomes(e) :
                    /\ o.k = "ok"
                    /\ inflight' = inflight \ {e}
                    /\ token' = o.access_token
                    /\ o.expires_in.k = "num" =>
                          tokenExpiry' = Num(now + o.expires_in.v * 1000)]_vars

\* a second exchange has failed and the token and the expiry the first one
\* stored are still in the cache
C34_Witness ==
    /\ nSettled >= 2
    /\ lastSettle = "fail"
    /\ token.k = "tok"
    /\ tokenExpiry = Num(120000)

\* an attempt of the call of job c has been answered 401
Had401(tr) == \E i \in 1..Len(tr) : tr[i] = Unauthorized

\* C35: from the first 401 of a call on, the call keeps its forced-refresh
\* mark, and every getToken it makes afterwards is forced and awaits a
\* credential exchange instead of reading the cache; so a call answered 401
\* and then with another failure awaits an exchange before its second
\* request and another before its third.
C35_ForceMarkNeverCleared ==
    /\ [](\A c \in Jobs :
            /\ Had401(trace[c]) => force[c]
            /\ (/\ Len(trace[c]) >= 2
                 /\ trace[c][1] = Unauthorized
                 /\ trace[c][2] # Unauthorized
                 /\ Len(gets[c]) >= 3) =>
                    (gets[c][2] = "exchange" /\ gets[c][3] = "exchange"))
    /\ [][\A c \in Jobs : (AsksToken(c) /\ Had401(trace'[c])) =>
            /\ lastGet'.force
            /\ lastGet'.via = "exchange"
            /\ pc'[c] = "awaitRefresh"]_vars

\* after 401 and 500 the retry awaits an exchange although the token the
\* exchange forced by the 401 stored is in the cache and still valid
C35_Witness ==
    \E c \in Jobs :
        /\ trace[c] = <<Unauthorized, [status |-> 500, body |-> "oops"]>>
        /\ gets[c] = <<"cache", "exchange", "exchange">>
        /\ pc[c] = "awaitRefresh"
        /\ token.k = "tok"
        /\ ~NeedsRefresh(FALSE)
        /\ nStarted >= 3

\* the attempt of the call of job c fails in this step, on the entry x of
\* its trace, and the call has attempts left
FailsOn(c, x) ==
    /\ trace'[c] = Append(trace[c], x)
    /\ x # ApiOk
    /\ attempt'[c] < maxRetries

\* C36: after a 401 the call goes on to its next attempt at once, asking
\* for a forced token in the same step and setting no timer; after any
\* other failure it sets a timer and asks for nothing until the timer
\* fires; so a getToken other than the first of a call is made either on a
\* 401 or when a timer fires.
C36_NoBackoffAfter401 ==
    /\ [][\A c \in Jobs :
            /\ FailsOn(c, Unauthorized) =>
                    /\ pc'[c] = "awaitRefresh"
                    /\ AsksToken(c)
                    /\ lastGet'.force
                    /\ sleeps'[c] = sleeps[c]
            /\ (\E x \in (ApiResponses \cup {NetworkError, TokenError})
                          \ {Unauthorized} : FailsOn(c, x)) =>
                    /\ pc'[c] = "backoff"
                    /\ ~AsksToken(c)
                    /\ Len(sleeps'[c]) = Len(sleeps[c]) + 1
            /\ (AsksToken(c) /\ Len(gets'[c]) > 1) =>
                    \/ pc[c] = "backoff"
                    \/ FailsOn(c, Unauthorized)]_vars
    /\ [](\A c \in Jobs : pc[c] = "backoff" =>
            /\ trace[c] # <<>>
            /\ trace[c][Len(trace[c])] # Unauthorized)

\* the second request followed the 401 with no timer in between, and the
\* third waits for the timer set on the 500
C36_Witness ==
    \E c \in Jobs :
        /\ trace[c] = <<Unauthorized, [status |-> 500, body |-> "oops"]>>
        /\ nReq[c] = 2
        /\ sleeps[c] = <<2000>>
        /\ pc[c] = "backoff"

\* C37: the execution of a job on a relevant event whose webhook payload
\* has a status outside the acceptance set completes in the step that takes
\* it from the queue, without error, without asking for a token and without
\* starting a call; such a job never sends a GET or a POST and creates no
\* invoice, whatever the status of the estimate at the API.
C37_UnacceptedWebhookIsNoOp ==
    /\ [][\A c \in Jobs :
            (/\ Trigger(event[c])
             /\ ~Accepted(event[c].relatedobject.status)
             /\ runs'[c] # runs[c]) =>
                /\ outcome'[c] = "completed"
                /\ thrown'[c] = NoError
                /\ step'[c] = "idle"
                /\ reqs'[c] = [get |-> 0, post |-> 0]
                /\ payload'[c] = NULL
                /\ UNCHANGED <<mgrVars, getVars, callVars, created>>]_vars
    /\ [](\A c \in Jobs :
            (Trigger(event[c]) /\ ~Accepted(event[c].relatedobject.status)) =>
                /\ GetsSent(c) = 0
                /\ PostsSent(c) = 0
                /\ step[c] = "idle"
                /\ created[c] = 0)

\* the webhook said draft while the estimate is won at the API: the job was
\* consumed with success and nothing was sent for it
C37_Witness ==
    \E c \in Jobs :
        /\ Trigger(event[c])
        /\ event[c].relatedobject.status = "draft"
        /\ remote[c].status = "won"
        /\ Ended(c)
        /\ outcome[c] = "completed"
        /\ nReq[c] = 0
        /\ gets[c] = <<>>

\* the keys of the estimate that a payload must not carry
EstimateOwnKeys ==
    {"id", "status", "number", "created", "owner", "date", "amounts",
     "public_link", "pdf_link", "fiscal_year_id", "delivery_address_id",
     "invoicing_address_id"}

\* C38: no payload carries one of the estimate's own keys, and its subject,
\* currency, parent, related and rows are the constructed ones, whatever the
\* webhook payload has under those names: the subject and the currency of
\* the webhook or their defaults, the parent {estimate, id fetched}, one
\* relation to a company, and as many rows as the fetched estimate has.
C38_OwnKeysDroppedConstructedWins ==
    \A c \in Jobs : payload[c] # NULL =>
        LET w == event[c].relatedobject
        IN /\ \A key \in EstimateOwnKeys :
                key \in DOMAIN payload[c] => payload[c][key] = ABSENT
           /\ payload[c].subject \in
                    {w.subject, [k |-> "facture", number |-> w.number]}
           /\ payload[c].subject \notin {NULL, Str(""), Num(0)}
           /\ payload[c].currency \in {w.currency, Str("EUR")}
           /\ payload[c].currency \notin {UNDEFINED, Str("")}
           /\ payload[c].parent = [type |-> "estimate", id |-> remote[c].id]
           /\ Len(payload[c].related) = 1
           /\ payload[c].related[1].type = "company"
           /\ DOMAIN payload[c].rows =
                    (IF remote[c].rows.k = "array"
                     THEN 1..Len(remote[c].rows.items) ELSE {})

\* the webhook payload had a parent and a subject of its own, 0, and rows
\* other than those of the fetched estimate: the payload has the
\* constructed ones and none of the estimate's own keys
C38_Witness ==
    \E c \in Jobs :
        /\ payload[c] # NULL
        /\ event[c].relatedobject.parent = Opportunity
        /\ event[c].relatedobject.subject = Num(0)
        /\ event[c].relatedobject.id = Num(1)
        /\ event[c].relatedobject.rows = Arr(<<RowA>>)
        /\ payload[c].parent = [type |-> "estimate", id |-> Num(1)]
        /\ payload[c].subject = [k |-> "facture", number |-> Str("D-1")]
        /\ payload[c].id = ABSENT
        /\ payload[c].status = ABSENT
        /\ Len(payload[c].rows) = 2

\* C39: when every request is answered in the end, every call that has
\* started returns or throws and every execution of a job ends; a call goes
\* round its loop at most maxRetries times, the k-th round starting with at
\* least k - 1 attempts consumed, and its counter never goes down while it
\* runs.
C39_CallsAndJobsTerminate ==
    /\ [](\A c \in Jobs :
            /\ attempt[c] <= maxRetries
            /\ Len(gets[c]) <= maxRetries
            /\ nReq[c] <= maxRetries
            /\ Len(gets[c]) <= attempt[c] + 1
            /\ pc[c] # "idle" => attempt[c] < maxRetries)
    /\ [][\A c \in Jobs :
            \/ attempt'[c] >= attempt[c]
            \/ attempt'[c] = 0 /\ pc[c] = "idle"]_vars
    /\ \A c \in Jobs : (pc[c] # "idle") ~> (pc[c] = "idle")
    /\ \A c \in Jobs : (step[c] = "get") ~> Ended(c)

\* a call went round its loop three times, slept 1000 and 2000 ms in
\* between, threw the last error, and the job ended
C39_Witness ==
    \E c \in Jobs :
        /\ Ended(c)
        /\ Len(gets[c]) = maxRetries
        /\ nReq[c] = maxRetries
        /\ sleeps[c] = <<1000, 2000>>
        /\ result[c].k = "error"

====
